---- MODULE Spec2Model ----
(***************************************************************************)
(* ElevationSmoother of shared/testing_data/test_elevation_smoothing.py:   *)
(* pattern-based spike detection followed by adaptive EMA smoothing.       *)
(*                                                                         *)
(* Numbers.  The program computes with Python floats.  The model computes  *)
(* with exact rationals [num, den] in lowest terms (den > 0), so equal     *)
(* numbers are equal values; IEEE-754 rounding is not modelled.  None is   *)
(* the record with den = 0.                                                *)
(***************************************************************************)
EXTENDS Integers, Sequences, FiniteSets

\* ------------------------------------------------------------ bounds
\* add_reading / reset calls explored under Spec
MaxCalls == 5
\* add_reading / reset calls explored under ScenarioSpec
MaxScenarioCalls == 7

\* ------------------------------------------------------ exact rationals
Abs(i) == IF i < 0 THEN -i ELSE i

RECURSIVE GCD(_, _)
GCD(a, b) == IF b = 0 THEN a ELSE GCD(b, a % b)

\* n/d in lowest terms, d # 0
Rat(n, d) ==
    LET g == GCD(Abs(n), Abs(d))
        s == IF d < 0 THEN -1 ELSE 1
    IN  [num |-> (s * n) \div g, den |-> (s * d) \div g]

R(i) == [num |-> i, den |-> 1]

None == [num |-> 0, den |-> 0]

RAdd(a, b) ==
    LET g == GCD(a.den, b.den)
    IN  Rat(a.num * (b.den \div g) + b.num * (a.den \div g), (a.den \div g) * b.den)

RNeg(a) == [num |-> -a.num, den |-> a.den]

RSub(a, b) == RAdd(a, RNeg(b))

RMul(a, b) ==
    LET g1 == GCD(Abs(a.num), b.den)
        g2 == GCD(Abs(b.num), a.den)
    IN  Rat((a.num \div g1) * (b.num \div g2), (a.den \div g2) * (b.den \div g1))

\* a / b, b # 0
RDiv(a, b) == RMul(a, Rat(b.den, b.num))

\* n1/d1 < n2/d2 (d1, d2 > 0), by integer parts and then, reciprocally, by
\* the remainders: no product is formed
RECURSIVE FracLt(_, _, _, _)
FracLt(n1, d1, n2, d2) ==
    LET q1 == n1 \div d1
        q2 == n2 \div d2
        r1 == n1 % d1
        r2 == n2 % d2
    IN  IF q1 # q2 THEN q1 < q2
        ELSE IF r2 = 0 THEN FALSE
        ELSE IF r1 = 0 THEN TRUE
        ELSE FracLt(d2, r2, d1, r1)

RLt(a, b) == FracLt(a.num, a.den, b.num, b.den)

RGt(a, b) == RLt(b, a)

RGe(a, b) == ~RLt(a, b)

RLe(a, b) == ~RLt(b, a)

RAbs(a) == [num |-> Abs(a.num), den |-> a.den]

RMin(a, b) == IF RLt(b, a) THEN b ELSE a

RMax(a, b) == IF RGt(b, a) THEN b ELSE a

RECURSIVE RSum(_)
RSum(s) == IF s = <<>> THEN R(0) ELSE RAdd(s[1], RSum(Tail(s)))

\* ------------------------------------------------------ configurations
\* __init__'s defaults
DefaultConfig ==
    [vertical_accuracy_threshold |-> R(20),
     alpha_min |-> Rat(1, 4),
     alpha_max |-> Rat(3, 4),
     trend_window |-> 5,
     spike_reversal_threshold |-> R(3)]

\* the configurations explored: the defaults, and two that override every
\* argument (alpha_min <= alpha_max in each)
Configs ==
    { DefaultConfig,
      [vertical_accuracy_threshold |-> R(25), alpha_min |-> Rat(1, 2),
       alpha_max |-> Rat(1, 2), trend_window |-> 3,
       spike_reversal_threshold |-> R(3)],
      [vertical_accuracy_threshold |-> R(10), alpha_min |-> Rat(1, 10),
       alpha_max |-> Rat(1, 2), trend_window |-> 2,
       spike_reversal_threshold |-> R(100)] }

\* elevations passed to add_reading
Elevations == {R(10), R(12), R(100)}

\* vertical_accuracy passed to add_reading; -1 is the default (none supplied)
NoAccuracy == R(-1)

Accuracies == {NoAccuracy, R(0), R(20), R(21)}

\* ------------------------------------------------------ the object
\* ElevationSmoother.__init__
Construct(cfg) ==
    [vertical_accuracy_threshold |-> cfg.vertical_accuracy_threshold,
     alpha_min |-> cfg.alpha_min,
     alpha_max |-> cfg.alpha_max,
     trend_window |-> cfg.trend_window,
     spike_reversal_threshold |-> cfg.spike_reversal_threshold,
     previous_smoothed |-> None,
     recent_elevations |-> <<>>,
     recent_accepted_elevations |-> <<>>]

\* consecutive differences: changes[i] = window[i+1] - window[i]
Changes(window) ==
    [i \in 1..(Len(window) - 1) |-> RSub(window[i + 1], window[i])]

Sign(c) == IF RGt(c, R(0)) THEN 1 ELSE IF RLt(c, R(0)) THEN -1 ELSE 0

\* Push evicting the newest element (pop() for pop(0))
Push_pop_last(window, v, cap) ==
    LET w == Append(window, v)
    IN  IF Len(w) > cap THEN SubSeq(w, 1, Len(w) - 1) ELSE w

\* list.append(v) followed by pop(0) when the length exceeds cap
Push(window, v, cap) ==
    LET w == Append(window, v)
    IN  IF Len(w) > cap THEN Tail(w) ELSE w

\* a raw window of one more element
RawWindowSize_five == 4 + 1

\* capacity of the raw window (len(self.recent_elevations) > 4)
RawWindowSize == 4

\* estimate_accuracy_from_pattern testing the oscillation before the
\* reversal spike
estimate_accuracy_from_pattern_oscillation_first(self) ==
    LET re == self.recent_elevations
        changes == Changes(re)
        n == Len(changes)
        last_change == changes[n]
        second_last_change == changes[n - 1]
        signs == [i \in 1..n |-> Sign(changes[i])]
        mean == RDiv(RSum(re), R(Len(re)))
        deviations == {RAbs(RSub(re[i], mean)) : i \in 1..Len(re)}
        max_deviation == CHOOSE d \in deviations : \A x \in deviations : RLe(x, d)
    IN  IF Len(re) < 4 THEN R(20)
        ELSE IF /\ n >= 3
                /\ signs[1] # 0 /\ signs[2] # 0 /\ signs[3] # 0
                /\ signs[1] # signs[2] /\ signs[2] # signs[3]
             THEN R(25)
        ELSE IF /\ n >= 2
                /\ RGt(RAbs(last_change), self.spike_reversal_threshold)
                /\ RGt(RAbs(second_last_change), self.spike_reversal_threshold)
                /\ \/ RGt(last_change, R(0)) /\ RLt(second_last_change, R(0))
                   \/ RLt(last_change, R(0)) /\ RGt(second_last_change, R(0))
             THEN R(30)
        ELSE IF Len(re) >= 5 /\ RLt(max_deviation, R(1)) THEN R(15)
        ELSE R(8)

\* ElevationSmoother._estimate_accuracy_from_pattern
estimate_accuracy_from_pattern(self) ==
    LET re == self.recent_elevations
        changes == Changes(re)
        n == Len(changes)
        last_change == changes[n]
        second_last_change == changes[n - 1]
        signs == [i \in 1..n |-> Sign(changes[i])]
        mean == RDiv(RSum(re), R(Len(re)))
        deviations == {RAbs(RSub(re[i], mean)) : i \in 1..Len(re)}
        max_deviation == CHOOSE d \in deviations : \A x \in deviations : RLe(x, d)
    IN  IF Len(re) < 4 THEN R(20)
        ELSE IF /\ n >= 2
                /\ RGt(RAbs(last_change), self.spike_reversal_threshold)
                /\ RGt(RAbs(second_last_change), self.spike_reversal_threshold)
                /\ \/ RGt(last_change, R(0)) /\ RLt(second_last_change, R(0))
                   \/ RLt(last_change, R(0)) /\ RGt(second_last_change, R(0))
             THEN R(30)
        ELSE IF /\ n >= 3
                /\ signs[1] # 0 /\ signs[2] # 0 /\ signs[3] # 0
                /\ signs[1] # signs[2] /\ signs[2] # signs[3]
             THEN R(25)
        ELSE IF Len(re) >= 5 /\ RLt(max_deviation, R(1)) THEN R(15)
        ELSE R(8)

\* calculate_adaptive_alpha returning alpha_max when no change is non-zero
calculate_adaptive_alpha_flat_max(self) ==
    LET acc == self.recent_accepted_elevations
        changes == Changes(acc)
        positive_count == Cardinality({i \in DOMAIN changes : RGt(changes[i], R(0))})
        negative_count == Cardinality({i \in DOMAIN changes : RLt(changes[i], R(0))})
        total_non_zero == positive_count + negative_count
        majority_count ==
            IF positive_count > negative_count THEN positive_count ELSE negative_count
        trend_strength == Rat(majority_count, total_non_zero)
        avg_magnitude ==
            RDiv(RSum([i \in DOMAIN changes |-> RAbs(changes[i])]), R(Len(changes)))
        magnitude_boost == RMin(RDiv(avg_magnitude, R(2)), R(1))
        combined_strength == RDiv(RAdd(trend_strength, magnitude_boost), R(2))
        alpha ==
            RAdd(self.alpha_min,
                 RMul(combined_strength, RSub(self.alpha_max, self.alpha_min)))
    IN  IF Len(acc) < 3 THEN self.alpha_min
        ELSE IF total_non_zero = 0 THEN self.alpha_max
        ELSE RMax(self.alpha_min, RMin(self.alpha_max, alpha))

\* calculate_adaptive_alpha returning the default 0.25, not self.alpha_min,
\* for a window of fewer than 3
calculate_adaptive_alpha_hardcoded(self) ==
    LET acc == self.recent_accepted_elevations
        changes == Changes(acc)
        positive_count == Cardinality({i \in DOMAIN changes : RGt(changes[i], R(0))})
        negative_count == Cardinality({i \in DOMAIN changes : RLt(changes[i], R(0))})
        total_non_zero == positive_count + negative_count
        majority_count ==
            IF positive_count > negative_count THEN positive_count ELSE negative_count
        trend_strength == Rat(majority_count, total_non_zero)
        avg_magnitude ==
            RDiv(RSum([i \in DOMAIN changes |-> RAbs(changes[i])]), R(Len(changes)))
        magnitude_boost == RMin(RDiv(avg_magnitude, R(2)), R(1))
        combined_strength == RDiv(RAdd(trend_strength, magnitude_boost), R(2))
        alpha ==
            RAdd(self.alpha_min,
                 RMul(combined_strength, RSub(self.alpha_max, self.alpha_min)))
    IN  IF Len(acc) < 3 THEN Rat(1, 4)
        ELSE IF total_non_zero = 0 THEN self.alpha_min
        ELSE RMax(self.alpha_min, RMin(self.alpha_max, alpha))

\* ElevationSmoother._calculate_adaptive_alpha
calculate_adaptive_alpha(self) ==
    LET acc == self.recent_accepted_elevations
        changes == Changes(acc)
        positive_count == Cardinality({i \in DOMAIN changes : RGt(changes[i], R(0))})
        negative_count == Cardinality({i \in DOMAIN changes : RLt(changes[i], R(0))})
        total_non_zero == positive_count + negative_count
        majority_count ==
            IF positive_count > negative_count THEN positive_count ELSE negative_count
        trend_strength == Rat(majority_count, total_non_zero)
        avg_magnitude ==
            RDiv(RSum([i \in DOMAIN changes |-> RAbs(changes[i])]), R(Len(changes)))
        magnitude_boost == RMin(RDiv(avg_magnitude, R(2)), R(1))
        combined_strength == RDiv(RAdd(trend_strength, magnitude_boost), R(2))
        alpha ==
            RAdd(self.alpha_min,
                 RMul(combined_strength, RSub(self.alpha_max, self.alpha_min)))
    IN  IF Len(acc) < 3 THEN self.alpha_min
        ELSE IF total_non_zero = 0 THEN self.alpha_min
        ELSE RMax(self.alpha_min, RMin(self.alpha_max, alpha))

\* add_reading, lines 36-38: track the raw elevation
TrackRaw(self, elevation) ==
    [self EXCEPT !.recent_elevations = Push(@, elevation, RawWindowSize)]

\* AccuracyToUse taking a supplied accuracy only if > 0
AccuracyToUse_positive(vertical_accuracy, estimated_accuracy) ==
    IF RGt(vertical_accuracy, R(0)) THEN vertical_accuracy ELSE estimated_accuracy

\* add_reading, line 46: the supplied accuracy if >= 0, else the estimate
AccuracyToUse(vertical_accuracy, estimated_accuracy) ==
    IF RGe(vertical_accuracy, R(0)) THEN vertical_accuracy ELSE estimated_accuracy

\* WasRejected without the test that a previous smoothed value exists
WasRejected_unguarded(self, accuracy_to_use) ==
    RGt(accuracy_to_use, self.vertical_accuracy_threshold)

\* WasRejected comparing with >= instead of >
WasRejected_ge(self, accuracy_to_use) ==
    IF RGe(accuracy_to_use, self.vertical_accuracy_threshold)
    THEN self.previous_smoothed # None
    ELSE FALSE

\* add_reading, lines 48-52: was_rejected
WasRejected(self, accuracy_to_use) ==
    IF RGt(accuracy_to_use, self.vertical_accuracy_threshold)
    THEN self.previous_smoothed # None
    ELSE FALSE

\* ElevationToSmooth without the substitution of a rejected reading
ElevationToSmooth_raw(self, elevation, was_rejected) == elevation

\* add_reading, lines 42 and 51: the value to smooth
ElevationToSmooth(self, elevation, was_rejected) ==
    IF was_rejected THEN self.previous_smoothed ELSE elevation

\* TrackAccepted without the test of was_rejected
TrackAccepted_always(self, elevation_to_smooth, was_rejected) ==
    [self EXCEPT !.recent_accepted_elevations =
                     Push(@, elevation_to_smooth, self.trend_window)]

\* add_reading, lines 55-58: track the accepted elevation
TrackAccepted(self, elevation_to_smooth, was_rejected) ==
    IF ~was_rejected
    THEN [self EXCEPT !.recent_accepted_elevations =
                          Push(@, elevation_to_smooth, self.trend_window)]
    ELSE self

\* Smoothed with the two weights exchanged
Smoothed_swapped(self, alpha, elevation_to_smooth) ==
    IF self.previous_smoothed = None
    THEN elevation_to_smooth
    ELSE RAdd(RMul(RSub(R(1), alpha), elevation_to_smooth),
              RMul(alpha, self.previous_smoothed))

\* Smoothed weighting the previous value with 1 + alpha
Smoothed_plus(self, alpha, elevation_to_smooth) ==
    IF self.previous_smoothed = None
    THEN elevation_to_smooth
    ELSE RAdd(RMul(alpha, elevation_to_smooth),
              RMul(RAdd(R(1), alpha), self.previous_smoothed))

\* add_reading, lines 63-66: the EMA update
Smoothed(self, alpha, elevation_to_smooth) ==
    IF self.previous_smoothed = None
    THEN elevation_to_smooth
    ELSE RAdd(RMul(alpha, elevation_to_smooth),
              RMul(RSub(R(1), alpha), self.previous_smoothed))

\* ElevationSmoother.add_reading: the object after the call, the value
\* returned, and the call's locals
add_reading(self, elevation, vertical_accuracy) ==
    LET s1 == TrackRaw(self, elevation)
        estimated_accuracy == estimate_accuracy_from_pattern(s1)
        accuracy_to_use == AccuracyToUse(vertical_accuracy, estimated_accuracy)
        was_rejected == WasRejected(s1, accuracy_to_use)
        elevation_to_smooth == ElevationToSmooth(s1, elevation, was_rejected)
        s2 == TrackAccepted(s1, elevation_to_smooth, was_rejected)
        alpha == calculate_adaptive_alpha(s2)
        smoothed == Smoothed(s2, alpha, elevation_to_smooth)
    IN  [self |-> [s2 EXCEPT !.previous_smoothed = smoothed],
         elevation |-> elevation,
         vertical_accuracy |-> vertical_accuracy,
         estimated_accuracy |-> estimated_accuracy,
         accuracy_to_use |-> accuracy_to_use,
         was_rejected |-> was_rejected,
         elevation_to_smooth |-> elevation_to_smooth,
         alpha |-> alpha,
         returned |-> smoothed]

\* reset leaving the raw window as it is
reset_keeps_raw(self) ==
    [self EXCEPT !.previous_smoothed = None,
                 !.recent_accepted_elevations = <<>>]

\* reset leaving previous_smoothed as it is
reset_keeps_smoothed(self) ==
    [self EXCEPT !.recent_elevations = <<>>,
                 !.recent_accepted_elevations = <<>>]

\* ElevationSmoother.reset
reset(self) ==
    [self EXCEPT !.previous_smoothed = None,
                 !.recent_elevations = <<>>,
                 !.recent_accepted_elevations = <<>>]

\* ------------------------------------------------------------ state
VARIABLES
    smoother,     \* the ElevationSmoother object
    fresh,        \* a second object with the same configuration, constructed
                  \* anew whenever the first is reset, and fed the same readings
    last,         \* the last call on smoother: its arguments, locals and
                  \* returned value
    inputs,       \* elevations passed to smoother.add_reading since its
                  \* construction or last reset
    outputs,      \* the values those calls returned
    accepted,     \* the elevations among inputs whose call did not reject
    freshOutputs, \* the values fresh.add_reading returned
    resets,       \* reset() calls so far
    calls         \* add_reading and reset calls so far

vars == <<smoother, fresh, last, inputs, outputs, accepted, freshOutputs,
          resets, calls>>

InitWith(cfg) ==
    /\ smoother = Construct(cfg)
    /\ fresh = Construct(cfg)
    /\ last = [op |-> "__init__"]
    /\ inputs = <<>>
    /\ outputs = <<>>
    /\ accepted = <<>>
    /\ freshOutputs = <<>>
    /\ resets = 0
    /\ calls = 0

Init == \E cfg \in Configs : InitWith(cfg)

\* one smoother.add_reading(elevation, vertical_accuracy) call, and the same
\* call on fresh
Call(elevation, vertical_accuracy) ==
    \E r \in {add_reading(smoother, elevation, vertical_accuracy)},
       f \in {add_reading(fresh, elevation, vertical_accuracy)} :
        /\ smoother' = r.self
        /\ last' = [op |-> "add_reading",
                    elevation |-> r.elevation,
                    vertical_accuracy |-> r.vertical_accuracy,
                    estimated_accuracy |-> r.estimated_accuracy,
                    accuracy_to_use |-> r.accuracy_to_use,
                    was_rejected |-> r.was_rejected,
                    elevation_to_smooth |-> r.elevation_to_smooth,
                    alpha |-> r.alpha,
                    returned |-> r.returned]
        /\ inputs' = Append(inputs, elevation)
        /\ outputs' = Append(outputs, r.returned)
        /\ accepted' = IF r.was_rejected THEN accepted
                       ELSE Append(accepted, elevation)
        /\ fresh' = f.self
        /\ freshOutputs' = Append(freshOutputs, f.returned)
        /\ calls' = calls + 1
        /\ UNCHANGED resets

AddReading ==
    /\ calls < MaxCalls
    /\ \E elevation \in Elevations, vertical_accuracy \in Accuracies :
           Call(elevation, vertical_accuracy)

\* smoother.reset(); fresh is constructed anew
Reset ==
    /\ calls < MaxCalls
    /\ smoother' = reset(smoother)
    /\ last' = [op |-> "reset"]
    /\ inputs' = <<>>
    /\ outputs' = <<>>
    /\ accepted' = <<>>
    /\ fresh' = Construct(smoother)
    /\ freshOutputs' = <<>>
    /\ resets' = resets + 1
    /\ calls' = calls + 1

Next == AddReading \/ Reset

Spec == Init /\ [][Next]_vars

\* Readings with no accuracy supplied and no reset, in every configuration
\* (the worked scenario of the spec and its neighbours)
ScenarioAddReading ==
    /\ calls < MaxScenarioCalls
    /\ \E elevation \in Elevations : Call(elevation, NoAccuracy)

ScenarioNext == ScenarioAddReading

ScenarioSpec == Init /\ [][ScenarioNext]_vars

\* ------------------------------------------------------------ claims
LastN(s, n) == IF Len(s) <= n THEN s ELSE SubSeq(s, Len(s) - n + 1, Len(s))

FirstN(s, n) == IF Len(s) <= n THEN s ELSE SubSeq(s, 1, n)

Config(obj) ==
    [vertical_accuracy_threshold |-> obj.vertical_accuracy_threshold,
     alpha_min |-> obj.alpha_min,
     alpha_max |-> obj.alpha_max,
     trend_window |-> obj.trend_window,
     spike_reversal_threshold |-> obj.spike_reversal_threshold]

WorkedInputs == <<R(10), R(10), R(10), R(10), R(100), R(10), R(10)>>

WorkedOutputs ==
    <<R(10), R(10), R(10), R(10), Rat(155, 2), Rat(155, 2), Rat(565, 16)>>

\* C1: default configuration, no accuracy supplied: the readings
\* 10, 10, 10, 10, 100, 10, 10 return 10, 10, 10, 10, 77.5, 77.5, 35.3125;
\* the fifth is accepted with alpha 0.75, the sixth is rejected as a reversal
\* spike (estimate 30), the seventh is accepted with alpha 0.625.
C1_WorkedScenario ==
    (/\ Config(smoother) = DefaultConfig
     /\ FirstN(inputs, 7) = FirstN(WorkedInputs, Len(inputs)))
    => /\ FirstN(outputs, 7) = FirstN(WorkedOutputs, Len(inputs))
       /\ Len(inputs) = 5 => ~last.was_rejected /\ last.alpha = Rat(3, 4)
       /\ Len(inputs) = 6 => /\ last.was_rejected
                             /\ last.estimated_accuracy = R(30)
       /\ Len(inputs) = 7 => ~last.was_rejected /\ last.alpha = Rat(5, 8)

C1_Witness ==
    /\ Config(smoother) = DefaultConfig
    /\ inputs = WorkedInputs
    /\ outputs = WorkedOutputs
    /\ smoother.previous_smoothed = Rat(565, 16)

\* C2: the first add_reading after construction or reset returns the
\* elevation passed in, in every configuration and for every supplied
\* accuracy, also one above vertical_accuracy_threshold.
C2_FirstCallIdentity ==
    Len(inputs) = 1 =>
        /\ last.op = "add_reading"
        /\ last.returned = last.elevation
        /\ outputs = <<last.elevation>>
        /\ ~last.was_rejected

C2_Witness ==
    /\ resets > 0
    /\ Len(inputs) = 1
    /\ RGt(last.vertical_accuracy, smoother.vertical_accuracy_threshold)
    /\ last.accuracy_to_use = last.vertical_accuracy
    /\ last.returned = last.elevation

C4_BoundedAlpha ==
    last.op = "add_reading" =>
        /\ RLe(smoother.alpha_min, last.alpha)
        /\ RLe(last.alpha, smoother.alpha_max)

C4_Witness ==
    /\ last.op = "add_reading"
    /\ Len(smoother.recent_accepted_elevations) >= 3
    /\ RLt(smoother.alpha_min, last.alpha)
    /\ RLt(last.alpha, smoother.alpha_max)

\* C5: after reset(), a sequence of readings gives the outputs and the final
\* state (configuration, last smoothed value, both windows) it gives on a
\* freshly constructed filter.
C5_ResetIndependence ==
    resets > 0 => /\ outputs = freshOutputs
                  /\ smoother = fresh

C5_Witness ==
    /\ resets > 0
    /\ calls > resets + Len(inputs)
    /\ Len(inputs) >= 2
    /\ outputs = freshOutputs
    /\ smoother.previous_smoothed # inputs[Len(inputs)]

\* C6: the raw window holds at most 4 elevations and the accepted window at
\* most trend_window; each holds the most recent values pushed into it, in
\* arrival order, the oldest evicted first.
C6_WindowCapacity ==
    /\ Len(smoother.recent_elevations) <= 4
    /\ Len(smoother.recent_accepted_elevations) <= smoother.trend_window
    /\ smoother.recent_elevations = LastN(inputs, 4)
    /\ \E n \in 0..smoother.trend_window :
           /\ smoother.recent_accepted_elevations = LastN(accepted, n)
           /\ n < smoother.trend_window => n = Len(accepted)

C6_Witness ==
    /\ Len(inputs) >= 5
    /\ Len(smoother.recent_elevations) = 4
    /\ smoother.recent_elevations[1] = inputs[Len(inputs) - 3]
    /\ smoother.recent_elevations[1] # inputs[1]
    /\ Len(accepted) > smoother.trend_window
    /\ Len(smoother.recent_accepted_elevations) = smoother.trend_window

\* C7: the last smoothed value is undefined in the initial state and in the
\* state reset() produces, and after every add_reading it is defined and
\* equal to the value that call returned.
C7_LastSmoothedDefined ==
    /\ last.op \in {"__init__", "reset"} =>
           smoother.previous_smoothed = None /\ Len(inputs) = 0
    /\ last.op = "add_reading" =>
           /\ smoother.previous_smoothed # None
           /\ smoother.previous_smoothed = last.returned
           /\ Len(inputs) >= 1
           /\ outputs[Len(outputs)] = last.returned

C7_Witness ==
    /\ resets > 0
    /\ calls >= 4
    /\ Len(inputs) = 2
    /\ last.op = "add_reading"
    /\ smoother.previous_smoothed = last.returned
    /\ last.returned # last.elevation

\* C8: every element of the accepted window is a raw elevation passed to an
\* add_reading call, since the last reset, that did not reject; the elements
\* are in the order of those calls; a rejected call stores nothing in it.
C8_AcceptedWindowTrusted ==
    /\ smoother.recent_accepted_elevations =
           LastN(accepted, smoother.trend_window)
    /\ \A i \in 1..Len(smoother.recent_accepted_elevations) :
           \E j \in 1..Len(inputs) :
               smoother.recent_accepted_elevations[i] = inputs[j]

C8_Witness ==
    /\ last.op = "add_reading"
    /\ last.was_rejected
    /\ Len(smoother.recent_accepted_elevations) >= 2
    /\ Len(accepted) < Len(inputs)
    /\ \A i \in 1..Len(smoother.recent_accepted_elevations) :
           smoother.recent_accepted_elevations[i] # last.returned

\* a step that is one add_reading call
IsAddReading == calls' = calls + 1 /\ last'.op = "add_reading"

\* C9: add_reading rejects iff the last smoothed value is defined and
\* accuracy_to_use > vertical_accuracy_threshold, accuracy_to_use being the
\* supplied accuracy when >= 0 (zero included) and the pattern estimate of
\* the raw window otherwise; an accuracy equal to the threshold is accepted.
C9_GatingDecision ==
    [][IsAddReading =>
         LET supplied == last'.vertical_accuracy
             estimate == estimate_accuracy_from_pattern(smoother')
             used == IF supplied.num >= 0 THEN supplied ELSE estimate
         IN  /\ last'.accuracy_to_use = used
             /\ last'.was_rejected <=>
                    /\ smoother.previous_smoothed # None
                    /\ RGt(used, smoother.vertical_accuracy_threshold)
             /\ used = smoother.vertical_accuracy_threshold
                    => ~last'.was_rejected]_vars

\* a supplied accuracy equal to the threshold accepts a reading whose
\* pattern estimate (30) is above it
C9_Witness ==
    /\ last.op = "add_reading"
    /\ Len(inputs) >= 4
    /\ last.estimated_accuracy = R(30)
    /\ last.vertical_accuracy = smoother.vertical_accuracy_threshold
    /\ ~last.was_rejected

RawWindow == smoother.recent_elevations

\* the i-th last difference of the raw window (1 = the last)
LastDiff(i) ==
    RSub(RawWindow[Len(RawWindow) - i + 1], RawWindow[Len(RawWindow) - i])

Exceeds(d) == RGt(RAbs(d), smoother.spike_reversal_threshold)

Opposite(d, e) == (d.num > 0 /\ e.num < 0) \/ (d.num < 0 /\ e.num > 0)

IsReversalSpike ==
    /\ Exceeds(LastDiff(1)) /\ Exceeds(LastDiff(2))
    /\ Opposite(LastDiff(1), LastDiff(2))

IsOscillation ==
    /\ Opposite(LastDiff(1), LastDiff(2))
    /\ Opposite(LastDiff(2), LastDiff(3))

\* C11: the pattern estimate is 20 for a raw window of fewer than 4;
\* otherwise 30 when the last two differences both exceed
\* spike_reversal_threshold and have opposite signs; otherwise 25 when the
\* last three differences are non-zero and alternate in sign; otherwise 8.
\* A window that is a reversal spike and an oscillation gives 30.
C11_ClassifierPriority ==
    last.op = "add_reading" =>
        last.estimated_accuracy =
            IF Len(RawWindow) < 4 THEN R(20)
            ELSE IF IsReversalSpike THEN R(30)
            ELSE IF IsOscillation THEN R(25)
            ELSE R(8)

C11_Witness ==
    /\ last.op = "add_reading"
    /\ Len(RawWindow) = 4
    /\ IsReversalSpike
    /\ IsOscillation
    /\ last.estimated_accuracy = R(30)

\* the largest distance of the last five inputs from their mean is below 1
LastFiveWithinOne ==
    LET five == LastN(inputs, 5)
        mean == RDiv(RSum(five), R(5))
    IN  \A i \in 1..5 : RLt(RAbs(RSub(five[i], mean)), R(1))

\* C12: the raw window never holds the 5 elevations the micro-jitter rule
\* needs, so the pattern estimate of every add_reading is 20, 30, 25 or 8,
\* never 15.
C12_MicroJitterNeverFires ==
    last.op = "add_reading" =>
        /\ last.estimated_accuracy \in {R(20), R(30), R(25), R(8)}
        /\ last.estimated_accuracy # R(15)
        /\ Len(RawWindow) < 5

\* five readings within 1 of their mean, classified 8
C12_Witness ==
    /\ last.op = "add_reading"
    /\ Len(inputs) >= 5
    /\ LastFiveWithinOne
    /\ last.estimated_accuracy = R(8)

Between(lo, x, hi) == RLe(RMin(lo, hi), x) /\ RLe(x, RMax(lo, hi))

\* the value returned by the call before the last (the last smoothed value
\* the last call started from)
PreviousOutput == outputs[Len(outputs) - 1]

AlphaRangeInUnit ==
    /\ RLe(R(0), smoother.alpha_min)
    /\ RLe(smoother.alpha_min, smoother.alpha_max)
    /\ RLe(smoother.alpha_max, R(1))

Alternating ==
    /\ Len(inputs) >= 2
    /\ RGt(RAbs(RSub(inputs[1], inputs[2])), smoother.spike_reversal_threshold)
    /\ \A i \in 1..Len(inputs) :
           inputs[i] = IF i % 2 = 1 THEN inputs[1] ELSE inputs[2]

====
